---------------------------- MODULE Spec2Model ----------------------------
(* usdt_watcher.py: one-shot USDT blacklist / balance check with Telegram   *)
(* notification and a single-record state file, re-invoked by an external   *)
(* scheduler.  One action per externally visible step of a process run.     *)
EXTENDS Integers, Sequences, FiniteSets, TLC

(* ------------------------------ bounds --------------------------------- *)
MaxRuns == 3        \* process invocations by the external scheduler
MaxResults == 1     \* longest constant_result list the gateway returns
WordLen == 2        \* hex characters per constant_result word
MaxTokens == 1      \* longest trc20 holdings list
MaxLen == 4         \* longest raw balance text given to parse_usdt_balance

(* --------------------------- Python values ----------------------------- *)
\* A Python value handed to str(): a text (a sequence of characters; an int
\* prints as its digits) or None.
PyStr(t) == [kind |-> "str", text |-> t]
PyNone == [kind |-> "None", text |-> << >>]

\* str(raw)
Str(v) == IF v.kind = "None" THEN <<"N", "o", "n", "e">> ELSE v.text

\* one character of str.lower()
LowerChar(c) ==
    CASE c = "N" -> "n"
      [] c = "O" -> "o"
      [] c = "E" -> "e"
      [] c = "A" -> "a"
      [] OTHER -> c

\* s.lower()
Lower(s) == [i \in 1..Len(s) |-> LowerChar(s[i])]

RECURSIVE LStrip(_)
LStrip(s) == IF s # << >> /\ Head(s) = " " THEN LStrip(Tail(s)) ELSE s

RECURSIVE RStrip(_)
RStrip(s) ==
    IF s # << >> /\ s[Len(s)] = " " THEN RStrip(SubSeq(s, 1, Len(s) - 1)) ELSE s

\* s.strip()
Strip(s) == RStrip(LStrip(s))

\* "." in s
Contains(s, c) == \E i \in 1..Len(s) : s[i] = c

(* ------------------------------ Decimal -------------------------------- *)
\* A finite Decimal is coef * 10^exp, kept in the form without trailing
\* zeros in coef, so that equal values are equal records (Decimal compares
\* by value).
Digits == {"0", "1", "2", "3", "4", "5", "6", "7", "8", "9"}

DigitVal(c) ==
    CASE c = "0" -> 0 [] c = "1" -> 1 [] c = "2" -> 2 [] c = "3" -> 3
      [] c = "4" -> 4 [] c = "5" -> 5 [] c = "6" -> 6 [] c = "7" -> 7
      [] c = "8" -> 8 [] c = "9" -> 9

RECURSIVE Norm(_)
Norm(d) ==
    IF d.coef = 0 THEN [coef |-> 0, exp |-> 0]
    ELSE IF d.coef % 10 = 0 THEN Norm([coef |-> d.coef \div 10, exp |-> d.exp + 1])
    ELSE d

Zero == [coef |-> 0, exp |-> 0]

RECURSIVE DigitsVal(_)
DigitsVal(s) ==
    IF s = << >> THEN 0
    ELSE 10 * DigitsVal(SubSeq(s, 1, Len(s) - 1)) + DigitVal(s[Len(s)])

IsDigit(c) == c \in Digits

\* Decimal(s): surrounding blanks are ignored, then an optional sign and
\* digits with at most one point and at least one digit.  (Exponent, NaN and
\* Infinity literals need letters that the input alphabets below leave out.)
\* ok = FALSE stands for InvalidOperation.
Decimal(s) ==
    LET t == Strip(s)
        signed == t # << >> /\ Head(t) \in {"-", "+"}
        body == IF signed THEN Tail(t) ELSE t
        points == {i \in 1..Len(body) : body[i] = "."}
        digs == SelectSeq(body, IsDigit)
        wellFormed == /\ \A i \in 1..Len(body) : body[i] \in Digits \cup {"."}
                      /\ Cardinality(points) <= 1
                      /\ digs # << >>
        fracLen == IF points = {} THEN 0
                   ELSE Len(body) - (CHOOSE i \in points : TRUE)
        mag == DigitsVal(digs)
    IN  IF wellFormed
        THEN [ok |-> TRUE,
              val |-> Norm([coef |-> IF signed /\ Head(t) = "-" THEN 0 - mag ELSE mag,
                            exp |-> 0 - fracLen])]
        ELSE [ok |-> FALSE, val |-> Zero]

\* d / Decimal("1000000")
DivMillion(d) == Norm([coef |-> d.coef, exp |-> d.exp - 6])

\* d < 0
IsNegative(d) == d.coef < 0

parse_usdt_balance_keep_raw(raw) ==
    LET s == Strip(Str(raw))
    IN  IF s = << >> \/ Lower(s) = <<"n", "o", "n", "e">> THEN Zero
        ELSE IF Decimal(s).ok THEN Decimal(s).val ELSE Zero

parse_usdt_balance(raw) ==
    LET s == Strip(Str(raw))
    IN  IF s = << >> \/ Lower(s) = <<"n", "o", "n", "e">> THEN Zero
        ELSE IF Contains(s, ".")
             THEN IF Decimal(s).ok THEN Decimal(s).val ELSE Zero
             ELSE IF Decimal(s).ok THEN DivMillion(Decimal(s).val) ELSE Zero

(* --------------------------- gateway inputs ---------------------------- *)
\* sequences over S of length at most n
SeqUpTo(S, n) == UNION {[1..k -> S] : k \in 0..n}

HexAlphabet == {"0", "1", "a"}

HexDigitVal(c) ==
    CASE c = "a" -> 10 [] c = "b" -> 11 [] c = "c" -> 12
      [] c = "d" -> 13 [] c = "e" -> 14 [] c = "f" -> 15
      [] OTHER -> DigitVal(c)

\* int(w, 16)
RECURSIVE HexInt(_)
HexInt(w) ==
    IF w = << >> THEN 0
    ELSE 16 * HexInt(SubSeq(w, 1, Len(w) - 1)) + HexDigitVal(w[Len(w)])

HexWords == [1..WordLen -> HexAlphabet]

\* constant_result lists: any first word, then words that are never read
ZeroWord == [i \in 1..WordLen |-> "0"]
ResultLists ==
    {<< >>} \cup {<<w>> \o [i \in 1..k |-> ZeroWord] :
                      w \in HexWords, k \in 0..(MaxResults - 1)}

\* What requests.post(TRONGRID_TRIGGER, ...) can come back with.
NoResponse == [http |-> "none", has_result |-> FALSE, result |-> << >>]

TriggerResponses ==
    {[http |-> "error", has_result |-> FALSE, result |-> << >>]}
    \cup {[http |-> "ok", has_result |-> FALSE, result |-> << >>]}
    \cup {[http |-> "ok", has_result |-> TRUE, result |-> l] : l \in ResultLists}

\* Raw balance values a holdings entry can carry.
RawSamples ==
    {PyStr(<< >>), PyNone, PyStr(<<"a">>), PyStr(<<"-", "1">>),
     PyStr(<<"1", ".", "5">>), PyStr(<<"1", "5", "0", "0", "0", "0", "0">>)}

\* One element of the trc20 list: a dict with one contract key, or not a dict.
TokenObjs ==
    {[isdict |-> FALSE, key |-> "", val |-> PyNone]}
    \cup {[isdict |-> TRUE, key |-> k, val |-> v] :
              k \in {"USDT_CONTRACT", "OTHER_CONTRACT"}, v \in RawSamples}

BalanceVals ==
    {PyStr(<<"0">>), PyStr(<<"2", "5", "0", "0", "0", "0", "0">>),
     PyStr(<<"-", "1">>), PyStr(<<"a">>)}

\* data_list[0]; later entries are never read.
Entries ==
    {[isdict |-> FALSE, has_balance |-> FALSE, balance |-> PyNone,
      has_trc20 |-> FALSE, trc20 |-> << >>]}
    \cup {[isdict |-> TRUE, has_balance |-> TRUE, balance |-> b,
           has_trc20 |-> TRUE, trc20 |-> t] :
              b \in BalanceVals, t \in SeqUpTo(TokenObjs, MaxTokens)}
    \cup {[isdict |-> TRUE, has_balance |-> FALSE, balance |-> PyNone,
           has_trc20 |-> ht, trc20 |-> << >>] : ht \in BOOLEAN}

\* What requests.get(TRONGRID_ACCOUNT, ...) can come back with.
AccountResponses ==
    {[http |-> "error", isdict |-> TRUE, has_data |-> FALSE, data |-> << >>]}
    \cup {[http |-> "ok", isdict |-> FALSE, has_data |-> FALSE, data |-> << >>]}
    \cup {[http |-> "ok", isdict |-> TRUE, has_data |-> hd, data |-> << >>] :
              hd \in BOOLEAN}
    \cup {[http |-> "ok", isdict |-> TRUE, has_data |-> TRUE, data |-> <<e>>] :
              e \in Entries}

(* ----------------------------- TRON checks ----------------------------- *)
\* b58decode_check(addr) succeeds
b58_ok(addr) == addr = "valid"

is_blacklisted_nonzero(addr, r) ==
    LET result == IF r.has_result THEN r.result ELSE << >>
    IN  IF ~b58_ok(addr) THEN [raised |-> "ValueError", posted |-> FALSE, val |-> FALSE]
        ELSE IF r.http # "ok" THEN [raised |-> "HTTPError", posted |-> TRUE, val |-> FALSE]
        ELSE IF result = << >>
             THEN [raised |-> "RuntimeError", posted |-> TRUE, val |-> FALSE]
        ELSE [raised |-> "none", posted |-> TRUE, val |-> HexInt(result[1]) # 0]

\* is_blacklisted(addr) on gateway response r.  posted: the request was
\* issued (the address is decoded first).
is_blacklisted(addr, r) ==
    LET result == IF r.has_result THEN r.result ELSE << >>
    IN  IF ~b58_ok(addr) THEN [raised |-> "ValueError", posted |-> FALSE, val |-> FALSE]
        ELSE IF r.http # "ok" THEN [raised |-> "HTTPError", posted |-> TRUE, val |-> FALSE]
        ELSE IF result = << >>
             THEN [raised |-> "RuntimeError", posted |-> TRUE, val |-> FALSE]
        ELSE [raised |-> "none", posted |-> TRUE, val |-> HexInt(result[1]) = 1]

\* the loop over data.get("trc20", []): the first dict holding USDT_CONTRACT
RECURSIVE usdt_raw(_)
usdt_raw(tokens) ==
    IF tokens = << >> THEN PyStr(<<"0">>)
    ELSE IF Head(tokens).isdict /\ Head(tokens).key = "USDT_CONTRACT"
         THEN Head(tokens).val
         ELSE usdt_raw(Tail(tokens))

Raise(e) == [raised |-> e, usdt |-> Zero, trx |-> Zero]

get_balances_no_guard(r) ==
    LET data_list == IF r.has_data THEN r.data ELSE << >>
        data == data_list[1]
        balance == IF data.has_balance THEN data.balance ELSE PyStr(<<"0">>)
        tokens == IF data.has_trc20 THEN data.trc20 ELSE << >>
    IN  IF r.http # "ok" THEN Raise("HTTPError")
        ELSE IF ~r.isdict THEN Raise("AttributeError")
        ELSE IF data_list = << >> THEN Raise("IndexError")
        ELSE IF ~data.isdict THEN Raise("AttributeError")
        ELSE IF ~Decimal(Str(balance)).ok THEN Raise("InvalidOperation")
        ELSE [raised |-> "none",
              usdt |-> parse_usdt_balance(usdt_raw(tokens)),
              trx |-> DivMillion(Decimal(Str(balance)).val)]

\* get_balances() on gateway response r
get_balances(r) ==
    LET data_list == IF r.has_data THEN r.data ELSE << >>
        data == data_list[1]
        balance == IF data.has_balance THEN data.balance ELSE PyStr(<<"0">>)
        tokens == IF data.has_trc20 THEN data.trc20 ELSE << >>
    IN  IF r.http # "ok" THEN Raise("HTTPError")
        ELSE IF ~r.isdict THEN Raise("AttributeError")
        ELSE IF data_list = << >>
             THEN [raised |-> "none", usdt |-> Zero, trx |-> Zero]
        ELSE IF ~data.isdict THEN Raise("AttributeError")
        ELSE IF ~Decimal(Str(balance)).ok THEN Raise("InvalidOperation")
        ELSE [raised |-> "none",
              usdt |-> parse_usdt_balance(usdt_raw(tokens)),
              trx |-> DivMillion(Decimal(Str(balance)).val)]

(* ------------------------------- state --------------------------------- *)
VARIABLES
    BOT_TOKEN, CHAT_ID, TRONGRID_API_KEY, ADDRESS,  \* os.getenv(...) of this run
    state_file,     \* state.json on disk
    pc,             \* position of the running process
    prev_blocked,   \* main: prev.get("blocked")
    blocked,        \* main: is_blacklisted(ADDRESS)
    r_trigger,      \* the gateway's answer to the blacklist query of this run
    data_list,      \* get_balances: "unset", "empty" or "present"
    usdt_balance, trx_balance, now,     \* main locals
    calls,          \* file accesses and HTTP requests of this run, in order
    exc,            \* the exception that ended the run, "none" otherwise
    exit_status,    \* process exit status once pc = "exited"
    run,            \* invocations so far
    clock,          \* wall clock, in minutes
    raw, parsed     \* argument and result of a lone parse_usdt_balance call

vars == <<BOT_TOKEN, CHAT_ID, TRONGRID_API_KEY, ADDRESS, state_file, pc,
          prev_blocked, blocked, r_trigger, data_list, usdt_balance,
          trx_balance, now, calls, exc, exit_status, run, clock, raw, parsed>>

env == <<BOT_TOKEN, CHAT_ID, TRONGRID_API_KEY, ADDRESS>>
locals == <<prev_blocked, blocked, r_trigger, data_list, usdt_balance,
            trx_balance, now>>
lone == <<raw, parsed>>

\* os.getenv: None when unset, else the text (possibly empty)
SettingVals == {"None", "", "set"}
AddressVals == {"None", "", "invalid", "valid"}

Truthy_not_none(v) == v # "None"

\* Python truthiness of a setting
Truthy(v) == v \notin {"None", ""}

\* state.json: absent, or the record save_state wrote
NoFile == [exists |-> FALSE, blocked |-> FALSE, checked_at |-> 0]

\* load_prev_state(): {} when the file cannot be read
load_prev_state == state_file

\* prev.get("blocked")
GetBlocked(prev) ==
    IF ~prev.exists THEN "None" ELSE IF prev.blocked THEN "True" ELSE "False"

save_state_sticky(st) ==
    [exists |-> TRUE, blocked |-> st.blocked \/ state_file.blocked,
     checked_at |-> st.checked_at]

save_state_keep_time(st) ==
    IF state_file.exists
    THEN [exists |-> TRUE, blocked |-> st.blocked, checked_at |-> state_file.checked_at]
    ELSE [exists |-> TRUE, blocked |-> st.blocked, checked_at |-> st.checked_at]

\* save_state(state): open(STATE_FILE, "w") truncates, json.dump writes state
save_state(st) ==
    [exists |-> TRUE, blocked |-> st.blocked, checked_at |-> st.checked_at]


Init ==
    /\ BOT_TOKEN \in SettingVals
    /\ CHAT_ID \in SettingVals
    /\ TRONGRID_API_KEY \in SettingVals
    /\ ADDRESS \in AddressVals
    /\ state_file = NoFile
    /\ pc = "boot"
    /\ prev_blocked = "None"
    /\ blocked = "unset"
    /\ r_trigger = NoResponse
    /\ data_list = "unset"
    /\ usdt_balance = Zero
    /\ trx_balance = Zero
    /\ now = 0
    /\ calls = << >>
    /\ exc = "none"
    /\ exit_status = 0
    /\ run = 1
    /\ clock = 1
    /\ raw = PyNone
    /\ parsed = Zero

\* An uncaught exception e ends the process with status 1.
Die(e) ==
    /\ pc' = "exited"
    /\ exc' = e
    /\ exit_status' = 1

\* lines 9-15
ConfigCheck ==
    /\ pc = "boot"
    /\ IF ~Truthy(BOT_TOKEN) \/ ~Truthy(CHAT_ID) \/ ~Truthy(TRONGRID_API_KEY)
          \/ ~Truthy(ADDRESS)
       THEN Die("SystemExit")
       ELSE /\ pc' = "main"
            /\ UNCHANGED <<exc, exit_status>>
    /\ UNCHANGED <<env, state_file, locals, calls, run, clock, lone>>

\* main, lines 142-143
LoadPrevState ==
    /\ pc = "main"
    /\ calls' = Append(calls, "load_state")
    /\ prev_blocked' = GetBlocked(load_prev_state)
    /\ pc' = "is_blacklisted"
    /\ UNCHANGED <<env, state_file, blocked, r_trigger, data_list, usdt_balance,
                   trx_balance, now, exc, exit_status, run, clock, lone>>

\* main, line 145
IsBlacklisted ==
    /\ pc = "is_blacklisted"
    /\ \E r \in TriggerResponses :
         LET res == is_blacklisted(ADDRESS, r)
         IN  /\ calls' = IF res.posted THEN Append(calls, "trigger") ELSE calls
             /\ r_trigger' = IF res.posted THEN r ELSE r_trigger
             /\ IF res.raised # "none"
                THEN /\ Die(res.raised)
                     /\ UNCHANGED blocked
                ELSE /\ blocked' = IF res.val THEN "True" ELSE "False"
                     /\ pc' = "get_balances"
                     /\ UNCHANGED <<exc, exit_status>>
    /\ UNCHANGED <<env, state_file, prev_blocked, data_list, usdt_balance,
                   trx_balance, now, run, clock, lone>>

\* main, lines 146-166.  data_list is bound (line 121) once the response
\* has been read as a dict, whether or not a later line raises.
GetBalances ==
    /\ pc = "get_balances"
    /\ calls' = Append(calls, "account")
    /\ \E r \in AccountResponses :
         LET res == get_balances(r)
         IN  /\ data_list' = IF r.http # "ok" \/ ~r.isdict THEN "unset"
                             ELSE IF r.has_data /\ r.data # << >> THEN "present"
                             ELSE "empty"
             /\ IF res.raised # "none"
                THEN /\ Die(res.raised)
                     /\ UNCHANGED <<usdt_balance, trx_balance, now>>
                ELSE /\ usdt_balance' = res.usdt
                     /\ trx_balance' = res.trx
                     /\ now' = clock
                     /\ pc' = "send_report"
                     /\ UNCHANGED <<exc, exit_status>>
    /\ UNCHANGED <<env, state_file, prev_blocked, blocked, r_trigger, run,
                   clock, lone>>

send_telegram_retry(text, ok, next) ==
    IF ok
    THEN /\ calls' = Append(calls, text)
         /\ pc' = next
         /\ UNCHANGED <<exc, exit_status>>
    ELSE /\ calls' = Append(Append(calls, text), text)
         /\ Die("HTTPError")

\* send_telegram(text): one POST, raise_for_status
send_telegram(text, ok, next) ==
    /\ calls' = Append(calls, text)
    /\ IF ok
       THEN /\ pc' = next
            /\ UNCHANGED <<exc, exit_status>>
       ELSE Die("HTTPError")

SendReport_any_change ==
    /\ pc = "send_report"
    /\ \E ok \in BOOLEAN :
         send_telegram("report", ok,
                       IF prev_blocked # "None" /\ prev_blocked # blocked
                       THEN "send_unfreeze" ELSE "save_state")
    /\ UNCHANGED <<env, state_file, locals, run, clock, lone>>

\* main, lines 169-172
SendReport ==
    /\ pc = "send_report"
    /\ \E ok \in BOOLEAN :
         send_telegram("report", ok,
                       IF prev_blocked = "True" /\ blocked = "False"
                       THEN "send_unfreeze" ELSE "save_state")
    /\ UNCHANGED <<env, state_file, locals, run, clock, lone>>

\* main, line 173
SendUnfreeze ==
    /\ pc = "send_unfreeze"
    /\ \E ok \in BOOLEAN : send_telegram("unfreeze", ok, "send_bell")
    /\ UNCHANGED <<env, state_file, locals, run, clock, lone>>

\* main, line 174
SendBell ==
    /\ pc = "send_bell"
    /\ \E ok \in BOOLEAN : send_telegram("bell", ok, "save_state")
    /\ UNCHANGED <<env, state_file, locals, run, clock, lone>>

\* main, lines 176-177, and the normal end of the process
SaveState ==
    /\ pc = "save_state"
    /\ calls' = Append(calls, "save_state")
    /\ state_file' = save_state([blocked |-> blocked = "True", checked_at |-> now])
    /\ pc' = "exited"
    /\ exit_status' = 0
    /\ UNCHANGED <<env, locals, exc, run, clock, lone>>

\* The external scheduler starts the next process, some minutes later.
StartRun ==
    /\ pc = "exited"
    /\ run < MaxRuns
    /\ run' = run + 1
    /\ \E d \in {0, 1} : clock' = clock + d
    /\ BOT_TOKEN' \in SettingVals
    /\ CHAT_ID' \in SettingVals
    /\ TRONGRID_API_KEY' \in SettingVals
    /\ ADDRESS' \in AddressVals
    /\ pc' = "boot"
    /\ prev_blocked' = "None"
    /\ blocked' = "unset"
    /\ r_trigger' = NoResponse
    /\ data_list' = "unset"
    /\ usdt_balance' = Zero
    /\ trx_balance' = Zero
    /\ now' = 0
    /\ calls' = << >>
    /\ exc' = "none"
    /\ exit_status' = 0
    /\ UNCHANGED <<state_file, lone>>

Next ==
    \/ ConfigCheck
    \/ LoadPrevState
    \/ IsBlacklisted
    \/ GetBalances
    \/ SendReport
    \/ SendUnfreeze
    \/ SendBell
    \/ SaveState
    \/ StartRun

Spec == Init /\ [][Next]_vars

(* ---------------- parse_usdt_balance on its own ------------------------- *)
Alphabet == {"0", "1", "5", ".", "-", "a", " "}

\* Inputs of the lone call: every text over Alphabet up to MaxLen, None, and
\* some longer and upper-case texts.
RawInputs ==
    {PyStr(s) : s \in SeqUpTo(Alphabet, MaxLen)}
    \cup {PyNone,
          PyStr(<<"1", "2", "3", ".", "4", "5">>),
          PyStr(<<"1", "2", "3", "4", "5", "0", "0", "0", "0">>),
          PyStr(<<"a", "b", "c">>),
          PyStr(<<"N", "O", "N", "E">>),
          PyStr(<<" ", "n", "o", "n", "e", " ">>)}

InitParse ==
    /\ BOT_TOKEN = "set"
    /\ CHAT_ID = "set"
    /\ TRONGRID_API_KEY = "set"
    /\ ADDRESS = "valid"
    /\ state_file = NoFile
    /\ pc = "parse_call"
    /\ prev_blocked = "None"
    /\ blocked = "unset"
    /\ r_trigger = NoResponse
    /\ data_list = "unset"
    /\ usdt_balance = Zero
    /\ trx_balance = Zero
    /\ now = 0
    /\ calls = << >>
    /\ exc = "none"
    /\ exit_status = 0
    /\ run = 1
    /\ clock = 1
    /\ raw \in RawInputs
    /\ parsed = Zero

\* lines 60-69
ParseCall ==
    /\ pc = "parse_call"
    /\ parsed' = parse_usdt_balance(raw)
    /\ pc' = "parse_return"
    /\ UNCHANGED <<env, state_file, locals, calls, exc, exit_status, run, clock, raw>>

NextParse == ParseCall

SpecParse == InitParse /\ [][NextParse]_vars

(* ------------------------------ properties ----------------------------- *)
Count(s, x) == Cardinality({i \in 1..Len(s) : s[i] = x})
Has(s, x) == \E i \in 1..Len(s) : s[i] = x
Pos(s, x) == CHOOSE i \in 1..Len(s) : s[i] = x
LastCall == IF calls = << >> THEN "" ELSE calls[Len(calls)]

Messages == {"report", "unfreeze", "bell"}
Network == {"trigger", "account"} \cup Messages

\* the POST of message m came back without an HTTP error
Delivered(m) ==
    \E i \in 1..Len(calls) : calls[i] = m /\ (i < Len(calls) \/ exc = "none")

Unfrozen == prev_blocked = "True" /\ blocked = "False"

\* C1 as stated: in every run the unfreeze notification is sent if and only
\* if the previously persisted status was blocked = true and the freshly
\* computed flag is false.
C1_EveryRun ==
    pc = "exited" => (Has(calls, "unfreeze") <=> Unfrozen)

\* C1 amended: in every run in which the main report was sent successfully,
\* the unfreeze notification is sent if and only if the previously persisted
\* status was blocked = true and the freshly computed flag is false; it is
\* never sent otherwise, and when sent it is one or two messages posted after
\* the report of the same run.
C1_AfterReport ==
    /\ (pc \in {"send_bell", "save_state", "exited"} /\ Delivered("report"))
          => (Has(calls, "unfreeze") <=> Unfrozen)
    /\ (Has(calls, "unfreeze") \/ Has(calls, "bell"))
          => /\ Unfrozen
             /\ Delivered("report")
             /\ Has(calls, "unfreeze")
             /\ Pos(calls, "report") < Pos(calls, "unfreeze")
             /\ Count(calls, "unfreeze") + Count(calls, "bell") \in {1, 2}
             /\ Has(calls, "bell") => Pos(calls, "unfreeze") < Pos(calls, "bell")

C1_Witness ==
    /\ pc = "exited"
    /\ exit_status = 0
    /\ calls = <<"load_state", "trigger", "account", "report", "unfreeze",
                 "bell", "save_state">>

RuntimeFailures == {"HTTPError", "RuntimeError", "AttributeError", "InvalidOperation"}

\* C2: a run that ends in a runtime failure has posted an error notification
\* before exiting non-zero; a run that succeeds exits zero.
C2_ErrorNotified ==
    pc = "exited" =>
        /\ exc \in RuntimeFailures => (exit_status = 1 /\ Has(calls, "error_notice"))
        /\ exc = "none" => exit_status = 0

MissingSetting ==
    \E v \in {BOT_TOKEN, CHAT_ID, TRONGRID_API_KEY, ADDRESS} : v \in {"None", ""}

\* C3: with a required setting missing or empty the run is the failed
\* startup check alone: no gateway call, no message, no read or write of the
\* state file, exit status non-zero.
C3_ConfigAbort ==
    [][/\ (pc = "boot" /\ MissingSetting)
            => (pc' = "exited" /\ exit_status' = 1 /\ calls' = << >>
                /\ state_file' = state_file)
       /\ (pc' # "boot" /\ MissingSetting')
            => (pc' = "exited" /\ exit_status' = 1 /\ calls' = << >>)]_vars

C3_Witness ==
    /\ pc = "exited"
    /\ exc = "SystemExit"
    /\ ADDRESS = ""
    /\ BOT_TOKEN = "set"
    /\ state_file.exists

Written == [exists |-> TRUE, blocked |-> blocked = "True", checked_at |-> now]

\* C4 as stated: every run reads the persisted status once, first, and
\* overwrites it once, last, with the freshly computed flag.
C4_EveryRun ==
    pc = "exited" =>
        /\ Count(calls, "load_state") = 1
        /\ calls[1] = "load_state"
        /\ Count(calls, "save_state") = 1
        /\ LastCall = "save_state"
        /\ state_file = Written

\* C4 amended: every run that passes the configuration check reads the
\* persisted status exactly once, before any network call; a run that
\* completes successfully overwrites it exactly once, as its last step after
\* all notifications, with exactly the record {blocked: computed flag,
\* checked_at: now}; a run that fails does not write it.
C4_ReadFirstWriteLast ==
    /\ Count(calls, "load_state") <= 1
    /\ Count(calls, "save_state") <= 1
    /\ calls # << >> => calls[1] = "load_state"
    /\ (pc \notin {"boot", "main"} /\ exc # "SystemExit")
          => Count(calls, "load_state") = 1
    /\ Has(calls, "save_state") <=> (pc = "exited" /\ exit_status = 0)
    /\ (pc = "exited" /\ exit_status = 0)
          => /\ LastCall = "save_state"
             /\ Delivered("report")
             /\ state_file = Written

C4_Witness ==
    /\ pc = "exited"
    /\ exit_status = 0
    /\ prev_blocked = "True"
    /\ state_file = [exists |-> TRUE, blocked |-> FALSE, checked_at |-> 2]

\* the word is zeros followed by a final 1
IsOne(w) == w # << >> /\ w[Len(w)] = "1" /\ \A i \in 1..(Len(w) - 1) : w[i] = "0"

\* C5: once the gateway has answered the blacklist query without an HTTP
\* error, the flag is true exactly when the first constant_result word is the
\* number 1 and false for any other word; with an empty or absent list the
\* run has ended in RuntimeError with no flag, no report and no write.
C5_BlacklistDecision ==
    (r_trigger.http = "ok") =>
        IF r_trigger.has_result /\ r_trigger.result # << >>
        THEN /\ blocked = (IF IsOne(r_trigger.result[1]) THEN "True" ELSE "False")
             /\ exc # "RuntimeError"
        ELSE /\ pc = "exited"
             /\ exc = "RuntimeError"
             /\ exit_status = 1
             /\ blocked = "unset"
             /\ ~Has(calls, "report")
             /\ ~Has(calls, "save_state")

C5_Witness ==
    /\ blocked = "True"
    /\ Len(r_trigger.result) >= 1
    /\ r_trigger.result[1][1] = "0"
    /\ Has(calls, "report")

\* C6: every amount that reaches the report is non-negative.
C6_NonNegative ==
    Has(calls, "report") => (~IsNegative(usdt_balance) /\ ~IsNegative(trx_balance))

\* d * 1000000
TimesMillion(d) == Norm([coef |-> d.coef, exp |-> d.exp + 6])

C8_NoData ==
    data_list = "empty" =>
        /\ usdt_balance = Zero
        /\ trx_balance = Zero
        /\ pc \in {"send_report", "send_unfreeze", "send_bell", "save_state", "exited"}
        /\ pc # "send_report" => Has(calls, "report")
        /\ pc = "exited" =>
              \/ exit_status = 0 /\ exc = "none" /\ LastCall = "save_state"
                    /\ state_file = Written
              \/ exit_status = 1 /\ exc = "HTTPError" /\ LastCall \in Messages

C8_Witness ==
    /\ data_list = "empty"
    /\ pc = "exited"
    /\ exit_status = 0
    /\ LastCall = "save_state"

\* C9: within a run each gateway query and each message is issued at most
\* once, and a call that fails is the last call of the run.
C9_NoRetry ==
    [][/\ \A c \in Network : Count(calls', c) <= 1
       /\ exc' # "none" => pc' = "exited"
       /\ pc = "exited" => calls' \in {calls, << >>}]_vars

C9_Witness ==
    /\ pc = "exited"
    /\ exc = "HTTPError"
    /\ calls = <<"load_state", "trigger", "account", "report", "unfreeze">>

\* C10: a step that ends a run in failure leaves the state file as it was and
\* the file is only ever written by the final save of a run; while the file
\* says blocked = true and the flag is computed false, a successful report
\* post is followed by the unfreeze alert; the save stores the computed flag;
\* and no alert is posted in a run that starts from blocked = false or from
\* no file.
C10_AcrossRuns ==
    [][/\ (pc' = "exited" /\ exit_status' = 1) => state_file' = state_file
       /\ state_file' # state_file
             => (pc = "save_state" /\ exit_status' = 0
                 /\ state_file'.exists /\ state_file'.blocked = (blocked = "True"))
       /\ (pc = "send_report" /\ pc' # "exited" /\ state_file.exists
           /\ state_file.blocked /\ blocked = "False")
             => pc' = "send_unfreeze"
       /\ (pc = "send_unfreeze") => (calls' = Append(calls, "unfreeze"))
       /\ (pc' = "send_unfreeze" \/ Has(calls', "unfreeze"))
             => (state_file.exists /\ state_file.blocked /\ blocked' = "False")
       /\ (pc = "save_state" /\ blocked = "False")
             => (state_file'.exists /\ ~state_file'.blocked)]_vars

\* third run: the alert of the second run failed, the third run sent it again
C10_Witness ==
    /\ run = 3
    /\ prev_blocked = "True"
    /\ Delivered("unfreeze")
    /\ pc = "exited"
    /\ exit_status = 0
    /\ ~state_file.blocked

=============================================================================
